---- MODULE Spec2Model ----
(***************************************************************************)
(* State-machine model of src/src/xwidget.c (GNU Emacs xwidget support,    *)
(* USE_GTK build): the xwidget (model) registry Vxwidget_list, the view    *)
(* registry Vxwidget_view_list, glyph placement and clipping in            *)
(* x_draw_xwidget_glyph_string, visibility tracking in                     *)
(* xwidget_end_redisplay, the script-callback table and buffer teardown.   *)
(***************************************************************************)
EXTENDS Integers, Sequences, FiniteSets, TLC

VARIABLES
  xw,                 \* struct xwidget objects ever allocated, by handle 1..Len(xw)
  xwidget_list,       \* Vxwidget_list: handles, newest first
  xwidget_view_list,  \* Vxwidget_view_list: struct xwidget_view records, newest first
  script_callbacks,   \* xw->script_callbacks per handle: <<>> is Qnil, else the vector
  inflight,           \* script runs handed to WebKit and not yet completed
  reqs,               \* every script request made: what it stored and what became of it
  events,             \* kbd_buffer_store_event queue
  box,                \* window_box (w, TEXT_AREA, ...) of every window
  matrix,             \* xwidgets having an XWIDGET_GLYPH in the window's glyph matrix
  last,               \* the last operation: its arguments, outcome and backend commands
  alive               \* FALSE once the process has aborted

vars == <<xw, xwidget_list, xwidget_view_list, script_callbacks, inflight, reqs,
          events, box, matrix, last, alive>>

\* WebKit's pending runs, the request history and the keyboard buffer.
asyncVars == <<inflight, reqs, events>>

(***************************************************************************)
(* Bounds of the model.                                                    *)
(***************************************************************************)
\* struct xwidget objects allocated in one run.
MaxModels == 2
\* Width of a C int in the model; the build has 32.  Lisp fixnums are wider.
IntBits == 5
\* Script requests issued in one run.
MaxRequests == 3
\* Views on Vxwidget_view_list at one time.
MaxViews == 3

\* make_nil_vector (32) in save_script_callback, scaled down 16 times so that a full
\* table is reachable.
InitialSlots == 2

\* The events the input queue holds in the model.
MaxEvents == 4

\* The off-canvas position xwidget_hide_view moves a hidden view to.
HiddenPos == 10000

INT_MAX == 2^(IntBits - 1) - 1
INT_MIN == -(2^(IntBits - 1))

Windows == {"w1", "w2"}
Buffers == {"b1", "b2"}
Qwebkit == "webkit"
Types == {Qwebkit, "other"}
\* A Lisp object that is no xwidget (XWIDGETP fails).
NotXwidget == 0
\* An empty slot of a script_callbacks vector; a used slot is the cons of the copied
\* script and the continuation: req names the request whose script and continuation
\* they are, fun tells whether a continuation was given.
Qnil == [req |-> 0, fun |-> FALSE]

max(a, b) == IF a >= b THEN a ELSE b
min(a, b) == IF a <= b THEN a ELSE b

\* C integer division, truncating toward zero.
CDiv(a, b) == IF a >= 0 THEN a \div b ELSE -((-a) \div b)

\* Conversion of an EMACS_INT to int as the build does it: modulo 2^IntBits.
ToInt(n) == ((n - INT_MIN) % (2^IntBits)) + INT_MIN

Fcons(a, list) == <<a>> \o list

\* Fdelq on a list of handles: every element EQ to elt is removed.
Fdelq(elt, list) == SelectSeq(list, LAMBDA e : e # elt)

\* Two view records are the same object (EQ): a view object is told from the other
\* views of its model and window by id.
SameView(u, v) == u.model = v.model /\ u.w = v.w /\ u.id = v.id

\* Fdelq on the view list.
FdelqView(xv, list) == SelectSeq(list, LAMBDA v : ~SameView(v, xv))

Range(s) == {s[i] : i \in DOMAIN s}

Handles == 1..Len(xw)
XWIDGETP(h) == h \in Handles

(***************************************************************************)
(* JavaScript values (JSCValue) and the Lisp values they convert to        *)
(***************************************************************************)
\* A JSCValue: k is what the jsc_value_is_* tests tell; s is the string, b the
\* boolean; n is the number counted in halves (3 is 1.5), numbers being doubles;
\* items are an array's elements in index order, or an object's property values
\* in the order jsc_value_object_enumerate_properties gives the names, each with
\* its name.
JSValue(k, name, s, n, b, items) ==
  [k |-> k, name |-> name, s |-> s, n |-> n, b |-> b, items |-> items]
JSUndefined == JSValue("undefined", "", "", 0, FALSE, <<>>)
JSNull == JSValue("null", "", "", 0, FALSE, <<>>)
JSString(s) == JSValue("string", "", s, 0, FALSE, <<>>)
JSBoolean(b) == JSValue("boolean", "", "", 0, b, <<>>)
JSNumber(n) == JSValue("number", "", "", n, FALSE, <<>>)
JSArray(items) == JSValue("array", "", "", 0, FALSE, items)
JSObject(items) == JSValue("object", "", "", 0, FALSE, items)
\* The value v as the property name of an object.
JSProperty(name, v) == [v EXCEPT !.name = name]

\* A Lisp value: nil, t, a string (s), a fixnum (n), a vector (items), or the
\* cons of a string (s) and a value (the one element of items).
LispValue(k, s, n, items) == [k |-> k, s |-> s, n |-> n, items |-> items]
LispNil == LispValue("nil", "", 0, <<>>)
LispT == LispValue("t", "", 0, <<>>)
build_string(s) == LispValue("string", s, 0, <<>>)
make_fixnum(n) == LispValue("fixnum", "", n, <<>>)
LispVector(items) == LispValue("vector", "", 0, items)
LispCons(s, cdr) == LispValue("cons", s, 0, <<cdr>>)

(***************************************************************************)
(* The record of the last operation: what it returned or signalled (res,   *)
(* arg) and the backend commands it issued (cmd is the WebKit call of a    *)
(* web-view operation); a draw also leaves its arguments (op, m, w, arg),   *)
(* a conversion its argument and its value (js, lisp).                     *)
(***************************************************************************)
NoLast ==
  [op |-> "none", m |-> 0, w |-> "", res |-> "ok", cmd |-> "none",
   arg |-> <<0, 0, 0>>, y |-> 0,
   created |-> FALSE, resized |-> FALSE, moved |-> FALSE, reclip |-> FALSE,
   clip |-> <<0, 0, 0, 0>>, sized |-> {},
   js |-> JSUndefined, lisp |-> LispNil]

(***************************************************************************)
(* Fmake_xwidget                                                           *)
(***************************************************************************)
\* CHECK_FIXNAT: a fixnum >= 0.
CHECK_FIXNAT(n) == n >= 0

Fmake_xwidget(type, width, height, buffer) ==
  /\ alive
  /\ Len(xw) < MaxModels
  /\ IF ~(CHECK_FIXNAT(width) /\ CHECK_FIXNAT(height))
       THEN /\ last' = [NoLast EXCEPT !.res = "wrong-type-argument"]
            /\ UNCHANGED <<xw, xwidget_list, script_callbacks>>
       ELSE LET val == Len(xw) + 1 IN
            /\ xw' = Append(xw,
                 [type |-> type, buffer |-> buffer,
                  height |-> ToInt(height), width |-> ToInt(width),
                  kill_without_query |-> FALSE,
                  widget_osr |-> IF type = Qwebkit THEN "live" ELSE "null"])
            /\ xwidget_list' = Fcons(val, xwidget_list)
            /\ script_callbacks' = Append(script_callbacks, <<>>)
            /\ last' = NoLast
  /\ UNCHANGED <<xwidget_view_list, asyncVars, box, matrix, alive>>

(***************************************************************************)
(* Fget_buffer_xwidgets                                                    *)
(***************************************************************************)
RECURSIVE get_buffer_xwidgets_loop(_, _, _)
get_buffer_xwidgets_loop(tail, buffer, xw_list) ==
  IF tail = <<>> THEN xw_list
  ELSE get_buffer_xwidgets_loop(Tail(tail), buffer,
         IF XWIDGETP(Head(tail)) /\ xw[Head(tail)].buffer = buffer
           THEN Fcons(Head(tail), xw_list) ELSE xw_list)

\* Variant of Fget_buffer_xwidgets without the test of the buffer.
get_all_xwidgets(buffer) ==
  IF buffer \notin Buffers THEN <<>> ELSE xwidget_list

Fget_buffer_xwidgets(buffer) ==
  IF buffer \notin Buffers THEN <<>>
  ELSE get_buffer_xwidgets_loop(xwidget_list, buffer, <<>>)

(***************************************************************************)
(* Views: lookup, allocation, initialisation                                *)
(***************************************************************************)
\* Fxwidget_view_lookup: the position in Vxwidget_view_list of the first view of
\* xwidget in window, 0 for Qnil.
Fxwidget_view_lookup(xwidget, window) ==
  LET hits == {i \in DOMAIN xwidget_view_list :
                 /\ xwidget_view_list[i].model = xwidget
                 /\ xwidget_view_list[i].w = window}
  IN IF hits = {} THEN 0 ELSE CHOOSE i \in hits : \A j \in hits : i <= j

\* Variant of xwidget_view_lookup that never finds a view.
lookup_finds_nothing(m, w) == 0

xwidget_view_lookup(m, w) == Fxwidget_view_lookup(m, w)

\* The identity of a newly allocated view object: one no listed view of the same
\* model and window has.
NewViewId(m, w) ==
  LET used == {xwidget_view_list[k].id : k \in
                 {i \in DOMAIN xwidget_view_list :
                    /\ xwidget_view_list[i].model = m
                    /\ xwidget_view_list[i].w = w}}
  IN CHOOSE i \in 1..(Cardinality(used) + 1) : i \notin used

\* allocate_xwidget_view: ALLOCATE_PSEUDOVECTOR clears only the Lisp slots (model, w);
\* the int and bool fields hold indeterminate values.  The code only ever compares an
\* indeterminate int with one value v before overwriting it: it is v or it is not.
Indeterminate(v) == {v, v + 1}

\* The non-Lisp fields of a fresh view, as draw finds them; l, t, r, b are the
\* values draw compares the clip fields with.  redisplayed is indeterminate as well,
\* but xwidget_start_redisplay overwrites it before its only read (xwidget_touched),
\* so it is kept FALSE.
Allocated(l, t, r, b) ==
  [clip_left : Indeterminate(l), clip_top : Indeterminate(t),
   clip_right : Indeterminate(r), clip_bottom : Indeterminate(b),
   hidden : BOOLEAN, redisplayed : {FALSE}]

\* xwidget_init_view: the view is pushed on Vxwidget_view_list by the caller's
\* use of this record; x and y are set, gtk_fixed_put places the widget at (x, y);
\* clip_*, hidden and redisplayed stay as allocated (g).
xwidget_init_view(m, w, x, y, g) ==
  [id |-> NewViewId(m, w), model |-> m, w |-> w, x |-> x, y |-> y,
   clip_left |-> g.clip_left, clip_top |-> g.clip_top,
   clip_right |-> g.clip_right, clip_bottom |-> g.clip_bottom,
   hidden |-> g.hidden, redisplayed |-> g.redisplayed,
   pos |-> <<x, y>>]

\* xwidget_show_view / xwidget_hide_view.
xwidget_show_view(xv) ==
  [xv EXCEPT !.hidden = FALSE,
             !.pos = <<xv.x + xv.clip_left, xv.y + xv.clip_top>>]

\* Variant of xwidget_hide_view without the gtk_fixed_move.
hide_view_in_place(xv) == [xv EXCEPT !.hidden = TRUE]

xwidget_hide_view(xv) ==
  [xv EXCEPT !.hidden = TRUE, !.pos = <<HiddenPos, HiddenPos>>]

(***************************************************************************)
(* Fxwidget_resize                                                         *)
(***************************************************************************)
\* check_integer_range (v, lo, hi) does not signal.
check_integer_range(v, lo, hi) == lo <= v /\ v <= hi

\* The fields Fxwidget_resize stores.
resize_fields(xws, m, w, h) ==
  [xws EXCEPT ![m].width = w, ![m].height = h]

\* Variant of resize_views without the model test.
resize_every_view(m) ==
  {<<xwidget_view_list[i].model, xwidget_view_list[i].w, xwidget_view_list[i].id>> : i \in
     DOMAIN xwidget_view_list}

\* The views Fxwidget_resize sends a size request to: those whose model is m.
resize_views(m) ==
  {<<xwidget_view_list[i].model, xwidget_view_list[i].w, xwidget_view_list[i].id>> : i \in
     {k \in DOMAIN xwidget_view_list : xwidget_view_list[k].model = m}}

\* The GTK calls on widget_osr and widgetwindow_osr: after kill_buffer_xwidgets has
\* destroyed the widgets the pointers dangle, and the call returns or the process
\* dies.
gtk_use_outcomes(xww) ==
  IF xww.widget_osr = "destroyed" THEN BOOLEAN ELSE {TRUE}

Fxwidget_resize(xwidget, new_width, new_height) ==
  /\ alive
  /\ IF ~XWIDGETP(xwidget)
       THEN /\ last' = [NoLast EXCEPT !.res = "wrong-type-argument"]
            /\ UNCHANGED <<xw, alive>>
     ELSE IF ~(check_integer_range(new_width, 0, INT_MAX)
               /\ check_integer_range(new_height, 0, INT_MAX))
       THEN /\ last' = [NoLast EXCEPT !.res = "args-out-of-range"]
            /\ UNCHANGED <<xw, alive>>
       ELSE /\ xw' = resize_fields(xw, xwidget, new_width, new_height)
            /\ \E survives \in gtk_use_outcomes(xw[xwidget]) :
                 /\ alive' = survives
                 /\ last' = IF survives
                              THEN [NoLast EXCEPT !.resized = TRUE,
                                                  !.sized = resize_views(xwidget)]
                              ELSE [NoLast EXCEPT !.res = "abort"]
  /\ UNCHANGED <<xwidget_list, xwidget_view_list, script_callbacks, asyncVars, box, matrix>>

(***************************************************************************)
(* x_draw_xwidget_glyph_string                                             *)
(***************************************************************************)
\* int y = s->y + (s->height / 2) - (xww->height / 2);
glyph_y(sy, sh, height) == sy + CDiv(sh, 2) - CDiv(height, 2)

\* Variant of draw_resizes that compares the heights only.
draw_resizes_on_height(xww, taw, tah) ==
  xww.type = Qwebkit /\ xww.height # tah

\* The resize test of the draw: a webkit xwidget whose size is not the text area's.
draw_resizes(xww, taw, tah) ==
  xww.type = Qwebkit /\ (xww.width # taw \/ xww.height # tah)

\* Variant of clip_high without the lower clamp.
clip_high_unclamped(low, size, ta_origin, ta_size, pos) ==
  min(size, ta_origin + ta_size - pos)

\* clip_left, clip_right (and clip_top, clip_bottom with the vertical values).
clip_low(ta_origin, pos) == max(0, ta_origin - pos)
clip_high(low, size, ta_origin, ta_size, pos) ==
  max(low, min(size, ta_origin + ta_size - pos))

\* Variant of draw_moved that compares the horizontal positions only.
draw_moved_across(xv, x, y, clip_left, clip_top) ==
  xv.x + xv.clip_left # x + clip_left

\* bool moved = ...
draw_moved(xv, x, y, clip_left, clip_top) ==
  \/ xv.x + xv.clip_left # x + clip_left
  \/ xv.y + xv.clip_top # y + clip_top

\* Variant of draw_reclip without the comparison of clip_left.
draw_reclip_but_left(xv, clip_left, clip_top, clip_right, clip_bottom) ==
  \/ xv.clip_right # clip_right
  \/ xv.clip_bottom # clip_bottom
  \/ xv.clip_top # clip_top

\* The reclip test.
draw_reclip(xv, clip_left, clip_top, clip_right, clip_bottom) ==
  \/ xv.clip_right # clip_right
  \/ xv.clip_bottom # clip_bottom
  \/ xv.clip_top # clip_top
  \/ xv.clip_left # clip_left

\* The draw from the view's initialisation on: found is the position on list
\* of the view the draw uses, 0 when xwidget_init_view makes it.
draw_with_view(m, w, sx, sy, sh, list, found) ==
  /\ alive
  /\ m \in Range(xwidget_list)
  /\ (found = 0 => Len(list) < MaxViews)
  /\ LET xww == xw[m]
         x == sx
         y == glyph_y(sy, sh, xww.height)
         text_area_x == box[w][1]
         text_area_y == box[w][2]
         text_area_width == box[w][3]
         text_area_height == box[w][4]
         resizes == draw_resizes(xww, text_area_width, text_area_height)
         xw1 == IF resizes
                  THEN resize_fields(xw, m, text_area_width, text_area_height)
                  ELSE xw
         clip_left == clip_low(text_area_x, x)
         clip_right == clip_high(clip_left, xw1[m].width, text_area_x,
                                 text_area_width, x)
         clip_top == clip_low(text_area_y, y)
         clip_bottom == clip_high(clip_top, xw1[m].height, text_area_y,
                                  text_area_height, y)
     IN \E g \in IF found = 0
                   THEN Allocated(clip_left, clip_top, clip_right, clip_bottom)
                   ELSE {list[found]} :
          LET xv == IF found = 0 THEN xwidget_init_view(m, w, x, y, g)
                    ELSE list[found]
              views == IF found = 0 THEN Fcons(xv, list)
                       ELSE list
              at == IF found = 0 THEN 1 ELSE found
              moved == draw_moved(xv, x, y, clip_left, clip_top)
              reclip == draw_reclip(xv, clip_left, clip_top, clip_right,
                                    clip_bottom)
              xv1 == [xv EXCEPT
                        !.x = x, !.y = y,
                        !.pos = IF moved THEN <<x + clip_left, y + clip_top>>
                                ELSE @,
                        !.clip_left = clip_left, !.clip_top = clip_top,
                        !.clip_right = clip_right, !.clip_bottom = clip_bottom]
          IN /\ xw' = xw1
             /\ xwidget_view_list' = [views EXCEPT ![at] = xv1]
             /\ matrix' = [matrix EXCEPT ![w] = @ \cup {m}]
             /\ last' = [NoLast EXCEPT
                           !.op = "draw", !.m = m, !.w = w,
                           !.arg = <<sx, sy, sh>>, !.y = y,
                           !.created = (found = 0), !.resized = resizes,
                           !.moved = moved, !.reclip = reclip,
                           !.clip = <<clip_left, clip_top, clip_right,
                                      clip_bottom>>,
                           !.sized = IF resizes
                                       THEN {<<v.model, v.w, v.id>> : v \in
                                               {u \in Range(views) : u.model = m}}
                                       ELSE {}]
  /\ UNCHANGED <<xwidget_list, script_callbacks, asyncVars, box, alive>>

\* The build with GTK: a view is made whenever the lookup finds none.
x_draw_xwidget_glyph_string(m, w, sx, sy, sh) ==
  draw_with_view(m, w, sx, sy, sh, xwidget_view_list, xwidget_view_lookup(m, w))

(***************************************************************************)
(* The build for Cocoa (NS_IMPL_COCOA): one view for each xwidget          *)
(***************************************************************************)
\* xww->xv, the field nsxwidget_init_view sets to the view it initialises and
\* nsxwidget_delete_view clears: the position on the list of the view whose model
\* is m, 0 when there is none.
ns_xv(list, m) ==
  IF \E i \in DOMAIN list : list[i].model = m
    THEN CHOOSE i \in DOMAIN list : list[i].model = m
    ELSE 0

\* Variant of ns_refuses that refuses a hidden view too.
ns_refuses_hidden_too(found, xv) == found = 0 /\ xv # 0

\* The draw is given up: no view for (m, w), and the xwidget's view is not hidden.
ns_refuses(found, xv) ==
  found = 0 /\ xv # 0 /\ ~xwidget_view_list[xv].hidden

\* message ("You can't share an xwidget (webkit2) among windows."); return;
\* The glyph stays in the window's matrix.
ns_cannot_share(m, w, sx, sy, sh) ==
  /\ alive
  /\ m \in Range(xwidget_list)
  /\ last' = [NoLast EXCEPT !.op = "draw", !.m = m, !.w = w,
                            !.arg = <<sx, sy, sh>>, !.res = "cannot-share"]
  /\ matrix' = [matrix EXCEPT ![w] = @ \cup {m}]
  /\ UNCHANGED <<xw, xwidget_list, xwidget_view_list, script_callbacks, asyncVars,
                 box, alive>>

ns_draw_xwidget_glyph_string(m, w, sx, sy, sh) ==
  LET found == xwidget_view_lookup(m, w)
      xv == ns_xv(xwidget_view_list, m)
  IN IF ns_refuses(found, xv)
       THEN ns_cannot_share(m, w, sx, sy, sh)
     ELSE IF found = 0 /\ xv # 0
       THEN draw_with_view(m, w, sx, sy, sh,
                           FdelqView(xwidget_view_list[xv], xwidget_view_list), 0)
       ELSE draw_with_view(m, w, sx, sy, sh, xwidget_view_list, found)

(***************************************************************************)
(* xwidget_end_redisplay                                                   *)
(***************************************************************************)
\* xwidget_start_redisplay: redisplayed = false on every view of the list.
xwidget_start_redisplay(views) ==
  [i \in DOMAIN views |-> [views[i] EXCEPT !.redisplayed = FALSE]]

\* The glyph scan: xwidget_touch on the view xwidget_view_lookup finds for each
\* XWIDGET_GLYPH of the matrix.
touch_glyphs(views, w) ==
  [i \in DOMAIN views |->
     IF \E m \in matrix[w] : xwidget_view_lookup(m, w) = i
       THEN [views[i] EXCEPT !.redisplayed = TRUE] ELSE views[i]]

\* Variant of show_or_hide without the test of the view's window.
show_or_hide_any_window(views, w) ==
  [i \in DOMAIN views |->
     IF views[i].redisplayed THEN xwidget_show_view(views[i])
     ELSE xwidget_hide_view(views[i])]

\* The closing loop: views of w are shown when touched and hidden otherwise.
show_or_hide(views, w) ==
  [i \in DOMAIN views |->
     IF views[i].w = w
       THEN IF views[i].redisplayed THEN xwidget_show_view(views[i])
            ELSE xwidget_hide_view(views[i])
       ELSE views[i]]

\* eassume (xv) on a glyph whose lookup finds nothing, followed by the store through
\* the null pointer in xwidget_touch: the process aborts.
xwidget_end_redisplay(w) ==
  /\ alive
  /\ IF \E m \in matrix[w] : xwidget_view_lookup(m, w) = 0
       THEN /\ alive' = FALSE
            /\ last' = [NoLast EXCEPT !.res = "abort"]
            /\ UNCHANGED xwidget_view_list
       ELSE /\ xwidget_view_list' =
                 show_or_hide(
                   touch_glyphs(xwidget_start_redisplay(xwidget_view_list), w), w)
            /\ last' = NoLast
            /\ UNCHANGED alive
  /\ UNCHANGED <<xw, xwidget_list, script_callbacks, asyncVars, box, matrix>>

\* xwidget_end_redisplay on Cocoa: a glyph whose lookup finds no view is skipped.
ns_xwidget_end_redisplay(w) ==
  /\ alive
  /\ xwidget_view_list' =
       show_or_hide(touch_glyphs(xwidget_start_redisplay(xwidget_view_list), w), w)
  /\ last' = NoLast
  /\ UNCHANGED <<xw, xwidget_list, script_callbacks, asyncVars, box, matrix, alive>>

\* The display engine stops producing a glyph for m in w (scrolled out, text changed).
glyph_removed(w, m) ==
  /\ alive
  /\ m \in matrix[w]
  /\ matrix' = [matrix EXCEPT ![w] = @ \ {m}]
  /\ last' = NoLast
  /\ UNCHANGED <<xw, xwidget_list, xwidget_view_list, script_callbacks, asyncVars, box, alive>>

\* The window's text area changes (window resized, fringes or margins toggled):
\* window_box returns b from now on.
window_box_changed(w, b) ==
  /\ alive
  /\ box[w] # b
  /\ box' = [box EXCEPT ![w] = b]
  /\ last' = NoLast
  /\ UNCHANGED <<xw, xwidget_list, xwidget_view_list, script_callbacks, asyncVars, matrix, alive>>

(***************************************************************************)
(* Fdelete_xwidget_view, xwidget_view_delete_all_in_window                 *)
(***************************************************************************)
\* g_signal_handlers_disconnect_matched (XXWIDGET (xv->model)->widgetwindow_osr, ...)
\* in Fdelete_xwidget_view, for each of the views deleted: a use of the offscreen
\* window of the view's xwidget.
delete_view_outcomes(deleted) ==
  IF \E v \in deleted : FALSE \in gtk_use_outcomes(xw[v.model])
    THEN BOOLEAN ELSE {TRUE}

\* The argument is the view object at position i of the list.
Fdelete_xwidget_view(i) ==
  /\ alive
  /\ i \in DOMAIN xwidget_view_list
  /\ \E survives \in delete_view_outcomes({xwidget_view_list[i]}) :
       /\ alive' = survives
       /\ xwidget_view_list' =
            IF survives
              THEN FdelqView(xwidget_view_list[i], xwidget_view_list)
              ELSE xwidget_view_list
       /\ last' = IF survives THEN NoLast ELSE [NoLast EXCEPT !.res = "abort"]
  /\ UNCHANGED <<xw, xwidget_list, script_callbacks, asyncVars, box, matrix>>

\* The loop walks the conses of the list as it was; Fdelq unlinks from the live list.
RECURSIVE delete_all_in_window_loop(_, _, _)
delete_all_in_window_loop(tail, w, views) ==
  IF tail = <<>> THEN views
  ELSE delete_all_in_window_loop(Tail(tail), w,
         IF Head(tail).w = w THEN FdelqView(Head(tail), views) ELSE views)

xwidget_view_delete_all_in_window(w) ==
  /\ alive
  /\ \E survives \in
         delete_view_outcomes({v \in Range(xwidget_view_list) : v.w = w}) :
       /\ alive' = survives
       /\ xwidget_view_list' =
            IF survives
              THEN delete_all_in_window_loop(xwidget_view_list, w,
                                             xwidget_view_list)
              ELSE xwidget_view_list
       /\ last' = IF survives THEN NoLast ELSE [NoLast EXCEPT !.res = "abort"]
  /\ UNCHANGED <<xw, xwidget_list, script_callbacks, asyncVars, box, matrix>>

(***************************************************************************)
(* kill_buffer_xwidgets                                                    *)
(***************************************************************************)
\* Variant of kill_one without the loop over the callback vector.
kill_one_keeps_callbacks(st, xwidget) ==
  [list |-> Fdelq(xwidget, st.list),
   xw |-> [st.xw EXCEPT ![xwidget].widget_osr =
                          IF @ = "null" THEN @ ELSE "destroyed"],
   cbs |-> st.cbs]

\* One turn of the loop body for xwidget: off the list, its GTK widgets destroyed,
\* every slot of its callback vector set to Qnil.
kill_one(st, xwidget) ==
  [list |-> Fdelq(xwidget, st.list),
   xw |-> [st.xw EXCEPT ![xwidget].widget_osr =
                          IF @ = "null" THEN @ ELSE "destroyed"],
   cbs |-> [st.cbs EXCEPT ![xwidget] = [i \in DOMAIN @ |-> Qnil]]]

RECURSIVE kill_loop(_, _)
kill_loop(tail, st) ==
  IF tail = <<>> THEN st
  ELSE kill_loop(Tail(tail), kill_one(st, Head(tail)))

kill_buffer_xwidgets(buffer) ==
  /\ alive
  /\ LET st == kill_loop(Fget_buffer_xwidgets(buffer),
                         [list |-> xwidget_list, xw |-> xw,
                          cbs |-> script_callbacks])
     IN /\ xwidget_list' = st.list
        /\ xw' = st.xw
        /\ script_callbacks' = st.cbs
  /\ last' = NoLast
  /\ UNCHANGED <<xwidget_view_list, asyncVars, box, matrix, alive>>

(***************************************************************************)
(* Public queries                                                          *)
(***************************************************************************)
\* CHECK_XWIDGET signals wrong-type-argument unless XWIDGETP.
Fxwidget_info(xwidget) ==
  /\ alive
  /\ last' = IF XWIDGETP(xwidget)
               THEN [NoLast EXCEPT
                       !.arg = <<xw[xwidget].width, xw[xwidget].height, 0>>]
               ELSE [NoLast EXCEPT !.res = "wrong-type-argument"]
  /\ UNCHANGED <<xw, xwidget_list, xwidget_view_list, script_callbacks, asyncVars, box, matrix, alive>>

view_lookup_call(xwidget, window) ==
  /\ alive
  /\ last' = IF XWIDGETP(xwidget)
               THEN [NoLast EXCEPT
                       !.arg = <<IF Fxwidget_view_lookup(xwidget, window) = 0 THEN 0
                                 ELSE xwidget_view_list[
                                        Fxwidget_view_lookup(xwidget, window)].id,
                                 0, 0>>]
               ELSE [NoLast EXCEPT !.res = "wrong-type-argument"]
  /\ UNCHANGED <<xw, xwidget_list, xwidget_view_list, script_callbacks, asyncVars, box, matrix, alive>>

(***************************************************************************)
(* Script execution: save_script_callback, Fxwidget_webkit_execute_script, *)
(* webkit_javascript_finished_cb                                           *)
(***************************************************************************)
\* xwidget_is_web_view: widget_osr is non-null and a WebKitWebView.  After
\* kill_buffer_xwidgets the pointer dangles and the type test reads a destroyed
\* object: either outcome.
xwidget_is_web_view(xww) ==
  CASE xww.widget_osr = "live" -> {TRUE}
    [] xww.widget_osr = "null" -> {FALSE}
    [] OTHER -> BOOLEAN

make_nil_vector(n) == [i \in 1..n |-> Qnil]

\* larger_vector (cbs, 1, -1): a copy grown by max (1, size / 2) nil slots.
larger_vector(cbs) == cbs \o make_nil_vector(max(1, Len(cbs) \div 2))

\* The for loop of save_script_callback from index idx (0-based, as in the code):
\* it leaves at the first nil slot, or, standing on the last slot and that one in
\* use, grows the vector and breaks without advancing idx.
RECURSIVE find_free_index(_, _)
find_free_index(cbs, idx) ==
  IF cbs[idx + 1] = Qnil THEN [cbs |-> cbs, idx |-> idx]
  ELSE IF idx + 1 = Len(cbs) THEN [cbs |-> larger_vector(cbs), idx |-> idx]
  ELSE find_free_index(cbs, idx + 1)

\* save_script_callback: the vector after the ASET and the index returned.
save_script_callback(cbs0, entry) ==
  LET cbs == IF cbs0 = <<>> THEN make_nil_vector(InitialSlots) ELSE cbs0
      f == find_free_index(cbs, 0)
  IN [cbs |-> [f.cbs EXCEPT ![f.idx + 1] = entry], idx |-> f.idx]

Fxwidget_webkit_execute_script(xwidget, fun) ==
  /\ alive
  /\ Len(reqs) < MaxRequests
  /\ IF ~XWIDGETP(xwidget)
       THEN /\ last' = [NoLast EXCEPT !.res = "wrong-type-argument"]
            /\ UNCHANGED <<script_callbacks, inflight, reqs>>
       ELSE \E web \in xwidget_is_web_view(xw[xwidget]) :
              IF ~web
                THEN /\ last' = [NoLast EXCEPT !.res = "not-webkit"]
                     /\ UNCHANGED <<script_callbacks, inflight, reqs>>
                ELSE LET r == Len(reqs) + 1
                         old == script_callbacks[xwidget]
                         s == save_script_callback(old, [req |-> r, fun |-> fun])
                     IN /\ script_callbacks' =
                             [script_callbacks EXCEPT ![xwidget] = s.cbs]
                        /\ inflight' = inflight \cup {r}
                        /\ reqs' = Append(reqs,
                             [m |-> xwidget, idx |-> s.idx, fun |-> fun,
                              wasfree |-> (old = <<>> \/ old[s.idx + 1] = Qnil),
                              registered |-> (xwidget \in Range(xwidget_list)),
                              cleared |-> 0, enq |-> 0, done |-> FALSE])
                        /\ last' = [NoLast EXCEPT !.cmd = "run_javascript"]
  /\ UNCHANGED <<xw, xwidget_list, xwidget_view_list, events, box, matrix, alive>>

\* store_xwidget_js_callback_event: the event's arg is the list of n = 4 elements
\* (javascript-callback xwidget proc argument).
store_xwidget_js_callback_event(m, proc, value) ==
  Append(events, [kind |-> "javascript-callback", n |-> 4,
                  m |-> m, proc |-> proc, value |-> value])

\* struct xwidget *xw = g_object_get_data (webview, XG_XWIDGET): the pointer stored
\* at creation.  Off Vxwidget_list the object is kept only by what Lisp still
\* references; once collected the pointer dangles and the reads through it kill the
\* process.
xw_pointer_outcomes(m) ==
  IF m \in Range(xwidget_list) THEN {"valid"} ELSE {"valid", "dangling"}

\* Variant of js_callback_runs without the return on a missing js_result.
js_callback_runs_on_error(ok, script_callback) ==
  script_callback # Qnil /\ script_callback.fun

\* The conditions under which the completion stores an event: a js_result (no early
\* return), a non-nil entry, a non-nil continuation in it.
js_callback_runs(ok, script_callback) ==
  ok /\ script_callback # Qnil /\ script_callback.fun

\* The completion WebKit delivers for request r; ok is FALSE when
\* webkit_web_view_run_javascript_finish returns no result.
webkit_javascript_finished_cb(r, ok) ==
  /\ alive
  /\ r \in inflight
  /\ LET m == reqs[r].m
         script_idx == reqs[r].idx
         script_callback == script_callbacks[m][script_idx + 1]
         runs == js_callback_runs(ok, script_callback)
         c == script_callback.req
         reqs1 == [reqs EXCEPT ![r].done = TRUE]
         reqs2 == IF script_callback = Qnil THEN reqs1
                  ELSE [reqs1 EXCEPT ![c].cleared = @ + 1]
     IN \E p \in xw_pointer_outcomes(m) :
          IF p = "dangling"
            THEN /\ alive' = FALSE
                 /\ last' = [NoLast EXCEPT !.res = "abort"]
                 /\ reqs' = reqs1
                 /\ UNCHANGED <<script_callbacks, events>>
            ELSE /\ script_callbacks' =
                      [script_callbacks EXCEPT ![m][script_idx + 1] = Qnil]
                 /\ events' = IF runs
                                THEN store_xwidget_js_callback_event(m, c, r)
                                ELSE events
                 /\ reqs' = IF runs THEN [reqs2 EXCEPT ![c].enq = @ + 1]
                            ELSE reqs2
                 /\ last' = NoLast
                 /\ UNCHANGED alive
  /\ inflight' = inflight \ {r}
  /\ UNCHANGED <<xw, xwidget_list, xwidget_view_list, box, matrix>>

(***************************************************************************)
(* webkit_js_to_lisp                                                       *)
(***************************************************************************)
\* jsc_value_to_int32: the number without its fraction, as a gint32 (modulo
\* 2^IntBits in the model).
jsc_value_to_int32(n) == ToInt(CDiv(n, 2))

RECURSIVE webkit_js_to_lisp(_)
webkit_js_to_lisp(value) ==
  IF value.k = "string" THEN build_string(value.s)
  ELSE IF value.k = "boolean" THEN (IF value.b THEN LispT ELSE LispNil)
  ELSE IF value.k = "number" THEN make_fixnum(jsc_value_to_int32(value.n))
  ELSE IF value.k = "array"
    THEN LispVector([i \in 1..Len(value.items) |->
                       webkit_js_to_lisp(value.items[i])])
  ELSE IF value.k = "object"
    THEN LispVector([i \in 1..Len(value.items) |->
                       LispCons(value.items[i].name,
                                webkit_js_to_lisp(value.items[i]))])
  ELSE LispNil

\* Lisp_Object lisp_value = webkit_js_to_lisp (value), for the value held in last.
js_result_converted ==
  /\ alive
  /\ last.op = "none"
  /\ last' = [last EXCEPT !.op = "js-to-lisp",
                          !.lisp = webkit_js_to_lisp(last.js)]
  /\ UNCHANGED <<xw, xwidget_list, xwidget_view_list, script_callbacks, asyncVars,
                 box, matrix, alive>>

(***************************************************************************)
(* webkit_download_cb                                                      *)
(***************************************************************************)
\* Variant of store_xwidget_event_string that leaves the event alone in the queue.
store_event_string_alone(evs, m, eventname) ==
  <<[kind |-> eventname, n |-> 3, m |-> m, proc |-> 0, value |-> 0]>>

\* store_xwidget_event_string: the event's arg is the list of n = 3 elements
\* (eventname xwidget eventstr); value 0 stands for the string.
store_xwidget_event_string(evs, m, eventname) ==
  Append(evs, [kind |-> eventname, n |-> 3, m |-> m, proc |-> 0, value |-> 0])

\* Fmake_xwidget connects webkit_download_cb to the "download-started" signal of the
\* default WebKitWebContext, which all web views share, once for every webkit
\* xwidget it makes; nothing disconnects the handlers, kill_buffer_xwidgets
\* included.
download_connections == {h \in Handles : xw[h].type = Qwebkit}

\* webkit_download_cb: the xwidget is the one of the download's web view, whatever
\* xwidget the handler was connected for.
webkit_download_cb(evs, view) ==
  store_xwidget_event_string(evs, view, "download-started")

\* The signal emission: every connected handler runs (they return FALSE).
RECURSIVE download_emit(_, _, _)
download_emit(evs, view, handlers) ==
  IF handlers = 0 THEN evs
  ELSE download_emit(webkit_download_cb(evs, view), view, handlers - 1)

\* The web view of the listed xwidget view starts a download.
download_started(view) ==
  /\ alive
  /\ view \in Range(xwidget_list)
  /\ xw[view].type = Qwebkit
  /\ Len(events) + Cardinality(download_connections) <= MaxEvents
  /\ events' = download_emit(events, view, Cardinality(download_connections))
  /\ last' = [NoLast EXCEPT !.op = "download-started", !.m = view]
  /\ UNCHANGED <<xw, xwidget_list, xwidget_view_list, script_callbacks, inflight,
                 reqs, box, matrix, alive>>

(***************************************************************************)
(* webkit_view_load_changed_cb, webkit_decide_policy_cb                    *)
(***************************************************************************)
LoadEvents == {"WEBKIT_LOAD_STARTED", "WEBKIT_LOAD_FINISHED"}
PolicyDecisionTypes ==
  {"RESPONSE", "NEW_WINDOW_ACTION", "NAVIGATION_ACTION", "other"}

\* The web view of the listed xwidget view reports load_event.
webkit_view_load_changed_cb(view, load_event) ==
  /\ alive
  /\ view \in Range(xwidget_list)
  /\ xw[view].type = Qwebkit
  /\ Len(events) < MaxEvents
  /\ events' = IF load_event = "WEBKIT_LOAD_FINISHED"
                 THEN store_xwidget_event_string(events, view, "load-changed")
                 ELSE events
  /\ last' = [NoLast EXCEPT !.op = "load-changed", !.m = view]
  /\ UNCHANGED <<xw, xwidget_list, xwidget_view_list, script_callbacks, inflight,
                 reqs, box, matrix, alive>>

\* The web view of the listed xwidget view asks for a policy decision of the given
\* type; supported is what webkit_response_policy_decision_is_mime_type_supported
\* tells of a response.
webkit_decide_policy_cb(view, type, supported) ==
  /\ alive
  /\ view \in Range(xwidget_list)
  /\ xw[view].type = Qwebkit
  /\ Len(events) < MaxEvents
  /\ events' = IF type \in {"NEW_WINDOW_ACTION", "NAVIGATION_ACTION"}
                 THEN store_xwidget_event_string(events, view, "decide-policy")
                 ELSE events
  /\ last' = [NoLast EXCEPT
                !.op = "decide-policy", !.m = view,
                !.cmd = IF type = "RESPONSE" /\ ~supported
                          THEN "policy_decision_download" ELSE "none"]
  /\ UNCHANGED <<xw, xwidget_list, xwidget_view_list, script_callbacks, inflight,
                 reqs, box, matrix, alive>>

(***************************************************************************)
(* Web-view operations: WEBKIT_FN_INIT, Fxwidget_webkit_uri,               *)
(* Fxwidget_webkit_title, Fxwidget_webkit_goto_uri,                        *)
(* Fxwidget_webkit_goto_history, Fxwidget_webkit_zoom                      *)
(***************************************************************************)
\* An operation that runs WEBKIT_FN_INIT, then checks its argument (arg_ok, with the
\* error signalled otherwise), then makes the WebKit call cmd on xw->widget_osr.
\* WEBKIT_FN_INIT signals for a non-xwidget; for an xwidget that holds no web view it
\* writes a line on stdout and returns Qnil.
webkit_fn(xwidget, arg_ok, error, cmd) ==
  /\ alive
  /\ IF ~XWIDGETP(xwidget)
       THEN /\ last' = [NoLast EXCEPT !.res = "wrong-type-argument"]
            /\ UNCHANGED alive
       ELSE \E web \in xwidget_is_web_view(xw[xwidget]) :
              IF ~web
                THEN /\ last' = [NoLast EXCEPT !.res = "not-webkit"]
                     /\ UNCHANGED alive
              ELSE IF ~arg_ok
                THEN /\ last' = [NoLast EXCEPT !.res = error]
                     /\ UNCHANGED alive
              ELSE IF cmd = "abort"
                THEN /\ last' = [NoLast EXCEPT !.res = "abort"]
                     /\ alive' = FALSE
                ELSE \E survives \in gtk_use_outcomes(xw[xwidget]) :
                       /\ alive' = survives
                       /\ last' = IF survives THEN [NoLast EXCEPT !.cmd = cmd]
                                  ELSE [NoLast EXCEPT !.res = "abort"]
  /\ UNCHANGED <<xw, xwidget_list, xwidget_view_list, script_callbacks, asyncVars, box, matrix>>

Fxwidget_webkit_uri(xwidget) ==
  webkit_fn(xwidget, TRUE, "", "get_uri")

Fxwidget_webkit_title(xwidget) ==
  webkit_fn(xwidget, TRUE, "", "get_title")

\* CHECK_STRING (uri); stringp tells whether the argument is a string.
Fxwidget_webkit_goto_uri(xwidget, stringp) ==
  webkit_fn(xwidget, stringp, "wrong-type-argument", "load_uri")

\* XFIXNAT (rel_pos): the fixnum's value, which XFIXNAT assumes (eassume) to be
\* non-negative.  For a negative fixnum the behaviour is undefined: the value is
\* returned as it is, or the compiler has used the assumption and the case -1 is
\* gone from the switch, or (with checking enabled) the assertion aborts.
XFIXNAT_outcomes(n) ==
  IF n >= 0 THEN {"value"} ELSE {"value", "assumed", "abort"}

\* The switch on XFIXNAT (rel_pos).
history_command(rel_pos, outcome) ==
  CASE outcome = "abort" -> "abort"
    [] outcome = "assumed" -> "none"
    [] outcome = "value" /\ rel_pos = -1 -> "go_back"
    [] outcome = "value" /\ rel_pos = 0 -> "reload"
    [] outcome = "value" /\ rel_pos = 1 -> "go_forward"
    [] OTHER -> "none"

\* if (XFIXNUM (rel_pos) < -1 || XFIXNUM (rel_pos) > 1) args_out_of_range_3 (...)
history_in_range(rel_pos) == ~(rel_pos < -1 \/ rel_pos > 1)

Fxwidget_webkit_goto_history(xwidget, rel_pos) ==
  \E o \in XFIXNAT_outcomes(rel_pos) :
    webkit_fn(xwidget, history_in_range(rel_pos), "args-out-of-range",
              history_command(rel_pos, o))

\* The zoom level is changed only for a float factor; anything else returns Qnil.
Fxwidget_webkit_zoom(xwidget, floatp) ==
  webkit_fn(xwidget, TRUE, "", IF floatp THEN "set_zoom_level" ELSE "none")

Init ==
  /\ xw = <<>>
  /\ xwidget_list = <<>>
  /\ xwidget_view_list = <<>>
  /\ script_callbacks = <<>>
  /\ inflight = {}
  /\ reqs = <<>>
  /\ events = <<>>
  /\ box = [w \in Windows |-> <<1, 1, 4, 4>>]
  /\ matrix = [w \in Windows |-> {}]
  /\ last = NoLast
  /\ alive = TRUE

(***************************************************************************)
(* SpecViews: the view registry under create, draw, redisplay-end,          *)
(* delete-view, resize and buffer-kill.  Geometry is held fixed: one glyph  *)
(* position, one text area.                                                 *)
(***************************************************************************)
NextViews ==
  \/ Fmake_xwidget(Qwebkit, 3, 4, "b1")
  \/ \E m \in Handles, w \in Windows :
       x_draw_xwidget_glyph_string(m, w, 1, 2, 2)
  \/ \E m \in Handles : Fxwidget_resize(m, 4, 4)
  \/ \E w \in Windows : xwidget_end_redisplay(w)
  \/ \E i \in DOMAIN xwidget_view_list : Fdelete_xwidget_view(i)
  \/ kill_buffer_xwidgets("b1")

SpecViews == Init /\ [][NextViews]_vars

(***************************************************************************)
(* SpecRedisplay: redisplay passes over windows whose glyphs come and go.  *)
(***************************************************************************)
NextRedisplay ==
  \/ Fmake_xwidget(Qwebkit, 4, 4, "b1")
  \/ \E m \in Handles, w \in Windows :
       x_draw_xwidget_glyph_string(m, w, 1, 2, 2)
  \/ \E w \in Windows : xwidget_end_redisplay(w)
  \/ \E w \in Windows, m \in Handles : glyph_removed(w, m)

SpecRedisplay == Init /\ [][NextRedisplay]_vars

(***************************************************************************)
(* SpecScript: script requests on web views, completed in any order.       *)
(***************************************************************************)
NextScript ==
  \/ \E t \in Types : Fmake_xwidget(t, 4, 4, "b1")
  \/ \E m \in Handles \cup {NotXwidget}, fun \in BOOLEAN :
       Fxwidget_webkit_execute_script(m, fun)
  \/ \E r \in inflight, ok \in BOOLEAN : webkit_javascript_finished_cb(r, ok)
  \/ kill_buffer_xwidgets("b1")

SpecScript == Init /\ [][NextScript]_vars

(***************************************************************************)
(* SpecDraw: one window, glyphs drawn at several positions, text areas of  *)
(* several sizes, explicit resizes, sizes up to the largest fixnum the     *)
(* model has.                                                              *)
(***************************************************************************)
\* Sizes given to make-xwidget: the second is one more than an int holds.
DrawMakeSizes == {<<2, 2>>, <<INT_MAX + 1, 4>>}
DrawBoxes == {<<1, 1, 4, 4>>, <<4, 1, 2, 4>>}

NextDraw ==
  \/ \E t \in Types, s \in DrawMakeSizes : Fmake_xwidget(t, s[1], s[2], "b1")
  \/ \E m \in Handles, sx \in {1, 6} :
       x_draw_xwidget_glyph_string(m, "w1", sx, 2, 2)
  \/ \E m \in Handles : Fxwidget_resize(m, 2, 2)
  \/ \E b \in DrawBoxes : window_box_changed("w1", b)

SpecDraw == Init /\ [][NextDraw]_vars

(***************************************************************************)
(* SpecClip: the clip computation of the draw over text areas and glyph    *)
(* positions on every side of the widget.  It starts with one xwidget made *)
(* and the window's text area anywhere.                                    *)
(***************************************************************************)
ClipSizes == {<<0, 2>>, <<3, 2>>}
ClipBoxes == {<<bx, by, bw, 2>> : bx \in 0..4, by \in {0, 1, 6}, bw \in {0, 2}}

InitClip ==
  /\ \E t \in Types, s \in ClipSizes :
       /\ xw = <<[type |-> t, buffer |-> "b1", height |-> s[2], width |-> s[1],
                  kill_without_query |-> FALSE,
                  widget_osr |-> IF t = Qwebkit THEN "live" ELSE "null"]>>
  /\ xwidget_list = <<1>>
  /\ xwidget_view_list = <<>>
  /\ script_callbacks = <<<<>>>>
  /\ inflight = {}
  /\ reqs = <<>>
  /\ events = <<>>
  /\ box \in [Windows -> ClipBoxes]
  /\ box["w2"] = <<0, 0, 0, 2>>
  /\ matrix = [w \in Windows |-> {}]
  /\ last = NoLast
  /\ alive = TRUE

NextClip ==
  \E sx \in {0, 2, 5}, sy \in {1, 3} :
    x_draw_xwidget_glyph_string(1, "w1", sx, sy, 2)

SpecClip == InitClip /\ [][NextClip]_vars

(***************************************************************************)
(* SpecBuffers: xwidgets of two buffers made, queried, resized and killed. *)
(***************************************************************************)
NextBuffers ==
  \/ \E t \in Types, s \in {<<4, 4>>, <<-1, 4>>}, b \in Buffers :
       Fmake_xwidget(t, s[1], s[2], b)
  \/ \E b \in Buffers : kill_buffer_xwidgets(b)
  \/ \E m \in Handles \cup {NotXwidget} : Fxwidget_info(m)
  \/ \E m \in Handles \cup {NotXwidget}, s \in {<<3, 4>>, <<-1, 2>>} :
       Fxwidget_resize(m, s[1], s[2])
  \/ \E m \in Handles \cup {NotXwidget} : view_lookup_call(m, "w1")

SpecBuffers == Init /\ [][NextBuffers]_vars

(***************************************************************************)
(* SpecKill: web views of two buffers with script requests pending while   *)
(* buffers are killed; completions arrive before and after the kill.       *)
(***************************************************************************)
NextKill ==
  \/ \E b \in Buffers : Fmake_xwidget(Qwebkit, 4, 4, b)
  \/ \E m \in Handles : Fxwidget_webkit_execute_script(m, TRUE)
  \/ \E r \in inflight, ok \in BOOLEAN : webkit_javascript_finished_cb(r, ok)
  \/ \E b \in Buffers : kill_buffer_xwidgets(b)

SpecKill == Init /\ [][NextKill]_vars

(***************************************************************************)
(* SpecWebkit: the web-view operations on web views, on xwidgets without a *)
(* web view, on killed xwidgets and on objects that are no xwidgets.       *)
(***************************************************************************)
Offsets == -2..2

NextWebkit ==
  \/ \E t \in Types : Fmake_xwidget(t, 4, 4, "b1")
  \/ \E m \in Handles \cup {NotXwidget} : Fxwidget_webkit_uri(m)
  \/ \E m \in Handles \cup {NotXwidget} : Fxwidget_webkit_title(m)
  \/ \E m \in Handles \cup {NotXwidget}, stringp \in BOOLEAN :
       Fxwidget_webkit_goto_uri(m, stringp)
  \/ \E m \in Handles \cup {NotXwidget}, rel_pos \in Offsets :
       Fxwidget_webkit_goto_history(m, rel_pos)
  \/ \E m \in Handles \cup {NotXwidget}, floatp \in BOOLEAN :
       Fxwidget_webkit_zoom(m, floatp)
  \/ \E m \in Handles \cup {NotXwidget}, fun \in BOOLEAN :
       Fxwidget_webkit_execute_script(m, fun)
  \/ kill_buffer_xwidgets("b1")

SpecWebkit == Init /\ [][NextWebkit]_vars

(***************************************************************************)
(* SpecEvents: xwidgets of both types made and killed, downloads started   *)
(* by the web views of the listed ones.                                    *)
(***************************************************************************)
NextEvents ==
  \/ \E t \in Types, b \in Buffers : Fmake_xwidget(t, 4, 4, b)
  \/ \E m \in Handles : download_started(m)
  \/ \E b \in Buffers : kill_buffer_xwidgets(b)

SpecEvents == Init /\ [][NextEvents]_vars

(***************************************************************************)
(* SpecCocoa: the Cocoa build's draw and end of redisplay in two windows.  *)
(***************************************************************************)
NextCocoa ==
  \/ Fmake_xwidget(Qwebkit, 4, 4, "b1")
  \/ \E m \in Handles, w \in Windows :
       ns_draw_xwidget_glyph_string(m, w, 1, 2, 2)
  \/ \E w \in Windows : ns_xwidget_end_redisplay(w)
  \/ \E w \in Windows, m \in Handles : glyph_removed(w, m)

SpecCocoa == Init /\ [][NextCocoa]_vars

(***************************************************************************)
(* SpecConvert: webkit_js_to_lisp on the values a script can evaluate to,  *)
(* nested two deep.                                                        *)
(***************************************************************************)
\* Numbers in halves: 1, 1.5, -1.5, the largest int, and one more than it.
JSNumbers == {2, 3, -3, 2 * INT_MAX, 2 * (INT_MAX + 1)}
JSAtoms ==
  {JSUndefined, JSNull, JSString("x"), JSBoolean(TRUE), JSBoolean(FALSE)}
    \cup {JSNumber(n) : n \in JSNumbers}
\* The elements of the inner arrays and objects.
JSElements == {JSNumber(2), JSString("x"), JSBoolean(TRUE)}
MaxArray == 3
JSNames == {<<>>, <<"a">>, <<"b">>, <<"a", "b">>, <<"b", "a">>}
JSArraysOf(elements, len) ==
  {JSArray(items) : items \in UNION {[1..l -> elements] : l \in 0..len}}
JSObjectsOf(elements) ==
  {JSObject([i \in DOMAIN names |-> JSProperty(names[i], vals[i])]) :
     <<names, vals>> \in
       UNION {{names} \X [DOMAIN names -> elements] : names \in JSNames}}
JSInner == JSAtoms \cup JSArraysOf(JSElements, MaxArray) \cup JSObjectsOf(JSElements)
JSValues == JSInner \cup JSArraysOf(JSInner, 1) \cup JSObjectsOf(JSInner)

InitConvert ==
  /\ xw = <<>>
  /\ xwidget_list = <<>>
  /\ xwidget_view_list = <<>>
  /\ script_callbacks = <<>>
  /\ inflight = {}
  /\ reqs = <<>>
  /\ events = <<>>
  /\ box = [w \in Windows |-> <<1, 1, 4, 4>>]
  /\ matrix = [w \in Windows |-> {}]
  /\ \E v \in JSValues : last = [NoLast EXCEPT !.js = v]
  /\ alive = TRUE

NextConvert == js_result_converted

SpecConvert == InitConvert /\ [][NextConvert]_vars

(***************************************************************************)
(* SpecCallbacks: the callbacks WebKit runs on an xwidget that has a view   *)
(* and script requests in flight.                                          *)
(***************************************************************************)
NextCallbacks ==
  \/ xw = <<>> /\ Fmake_xwidget(Qwebkit, 4, 4, "b1")
  \/ \E m \in Handles : x_draw_xwidget_glyph_string(m, "w1", 1, 2, 2)
  \/ \E m \in Handles : Len(reqs) < 2 /\ Fxwidget_webkit_execute_script(m, TRUE)
  \/ \E r \in inflight, ok \in BOOLEAN : webkit_javascript_finished_cb(r, ok)
  \/ \E m \in Handles, e \in LoadEvents : webkit_view_load_changed_cb(m, e)
  \/ \E m \in Handles, t \in PolicyDecisionTypes, supported \in BOOLEAN :
       webkit_decide_policy_cb(m, t, supported)
  \/ \E m \in Handles : download_started(m)
  \/ kill_buffer_xwidgets("b1")

SpecCallbacks == Init /\ [][NextCallbacks]_vars

(***************************************************************************)
(* SpecDelete: views of two xwidgets in two windows, deleted one by one    *)
(* and window by window, before and after the buffer is killed.            *)
(***************************************************************************)
NextDelete ==
  \/ Fmake_xwidget(Qwebkit, 4, 4, "b1")
  \/ \E m \in Handles, w \in Windows :
       x_draw_xwidget_glyph_string(m, w, 1, 2, 2)
  \/ \E i \in 1..MaxViews : Fdelete_xwidget_view(i)
  \/ \E w \in Windows : xwidget_view_delete_all_in_window(w)
  \/ kill_buffer_xwidgets("b1")

SpecDelete == Init /\ [][NextDelete]_vars

(***************************************************************************)
(* SpecHidden: one xwidget whose glyph goes away and comes back at another *)
(* place of either window.                                                 *)
(***************************************************************************)
NextHidden ==
  \/ xw = <<>> /\ Fmake_xwidget(Qwebkit, 4, 4, "b1")
  \/ \E m \in Handles, w \in Windows, sx \in {1, 2} :
       x_draw_xwidget_glyph_string(m, w, sx, 2, 2)
  \/ \E w \in Windows : xwidget_end_redisplay(w)
  \/ \E w \in Windows, m \in Handles : glyph_removed(w, m)

SpecHidden == Init /\ [][NextHidden]_vars

\* A handle whose xwidget kill_buffer_xwidgets has taken off Vxwidget_list.
Killed(h) == h \in Handles /\ h \notin Range(xwidget_list)

\* C3: with any number of script requests on a web view, more than the table holds
\* included, and their completions delivered in any order, the entry of every
\* completed request has been cleared exactly once, and no continuation has been
\* enqueued more than once.
C3_ClearedOnceEnqueuedAtMostOnce ==
  \A r \in DOMAIN reqs :
    /\ reqs[r].enq <= 1
    /\ reqs[r].cleared <= 1
    /\ (reqs[r].done /\ ~Killed(reqs[r].m)) => reqs[r].cleared = 1

\* C4: the slot index handed to WebKit named a slot that was free just before the
\* request, and until the request completes or its xwidget is killed that slot holds
\* the request's own script and continuation.
C4_SlotFreeAndKept ==
  \A r \in DOMAIN reqs :
    /\ reqs[r].wasfree
    /\ (r \in inflight /\ ~Killed(reqs[r].m)) =>
         script_callbacks[reqs[r].m][reqs[r].idx + 1] =
           [req |-> r, fun |-> reqs[r].fun]

(***************************************************************************)
(* Properties                                                              *)
(***************************************************************************)
\* C1: after any sequence of create, draw, redisplay-end, delete-view, resize and
\* buffer-kill, the view list holds at most one view for every (xwidget, window)
\* pair.
C1_OneViewPerModelAndWindow ==
  \A i, j \in DOMAIN xwidget_view_list :
    (xwidget_view_list[i].model = xwidget_view_list[j].model
      /\ xwidget_view_list[i].w = xwidget_view_list[j].w) => i = j

\* A draw has found and reused the view of its pair while the list holds views of
\* three pairs.
C1_Witness ==
  /\ Len(xwidget_view_list) = MaxViews
  /\ last.op = "draw" /\ ~last.created
  /\ \E h \in Handles : Killed(h)

\* C2: a redisplay-end pass for window w leaves every view of w not hidden exactly
\* when the pass met a glyph of the view's xwidget in w, every other view of w
\* hidden, and the hidden flag of the views of other windows as it was.
C2_EndRedisplayShowsTouched ==
  [][\A w \in Windows :
       (xwidget_end_redisplay(w) /\ alive') =>
         /\ Len(xwidget_view_list') = Len(xwidget_view_list)
         /\ \A i \in DOMAIN xwidget_view_list :
              LET v == xwidget_view_list[i]
                  v1 == xwidget_view_list'[i]
              IN /\ SameView(v, v1)
                 /\ v.w = w => (~v1.hidden <=> v.model \in matrix[w])
                 /\ v.w # w => v1.hidden = v.hidden]_vars

\* A pass over w1 has shown one view of w1 and hidden another, and a view of w2
\* that an earlier pass over w2 had shown is still not hidden.
C2_Witness ==
  \E i, j, k \in DOMAIN xwidget_view_list :
    /\ xwidget_view_list[i].w = "w1" /\ xwidget_view_list[i].redisplayed
    /\ ~xwidget_view_list[i].hidden
    /\ xwidget_view_list[j].w = "w1" /\ xwidget_view_list[j].hidden
    /\ xwidget_view_list[j].pos = <<HiddenPos, HiddenPos>>
    /\ xwidget_view_list[j].model \notin matrix["w1"]
    /\ xwidget_view_list[k].w = "w2" /\ ~xwidget_view_list[k].hidden
    /\ ~xwidget_view_list[k].redisplayed

\* C5: a draw that directly follows a draw with the same arguments (same xwidget,
\* window, glyph position and height, nothing in between) issues no move and no clip
\* update, also when the first of the two created the view or resized the xwidget.
C5_SecondDrawIssuesNothing ==
  [][(/\ last.op = "draw" /\ last'.op = "draw"
      /\ last'.m = last.m /\ last'.w = last.w /\ last'.arg = last.arg)
       => (~last'.moved /\ ~last'.reclip)]_vars

\* The text area of a view's window lies entirely outside the widget on an axis.
OutsideX(v) ==
  \/ box[v.w][1] + box[v.w][3] <= v.x
  \/ box[v.w][1] >= v.x + xw[v.model].width
OutsideY(v) ==
  \/ box[v.w][2] + box[v.w][4] <= v.y
  \/ box[v.w][2] >= v.y + xw[v.model].height

\* The view the last draw worked on.
DrawnView == xwidget_view_list[xwidget_view_lookup(last.m, last.w)]

\* C6: the stored clip of every view has clip_left <= clip_right and
\* clip_top <= clip_bottom, and a draw whose text area lies entirely outside the
\* widget on both axes leaves left = right and top = bottom.
C6_ClipOrdered ==
  /\ \A i \in DOMAIN xwidget_view_list :
       /\ xwidget_view_list[i].clip_left <= xwidget_view_list[i].clip_right
       /\ xwidget_view_list[i].clip_top <= xwidget_view_list[i].clip_bottom
  /\ (last.op = "draw" /\ OutsideX(DrawnView) /\ OutsideY(DrawnView)) =>
       /\ DrawnView.clip_left = DrawnView.clip_right
       /\ DrawnView.clip_top = DrawnView.clip_bottom

\* A draw with the text area to the right of and below the widget: the clip is a
\* point away from the origin.
C6_Witness ==
  /\ last.op = "draw" /\ OutsideX(DrawnView) /\ OutsideY(DrawnView)
  /\ DrawnView.clip_left = DrawnView.clip_right /\ DrawnView.clip_left > 0
  /\ DrawnView.clip_top = DrawnView.clip_bottom /\ DrawnView.clip_top > 0

\* C7: in every reachable state the stored clip of a view lies within
\* [0, width] x [0, height] of its xwidget (taken for xwidgets whose size is not
\* negative).
C7_ClipWithinModel ==
  \A i \in DOMAIN xwidget_view_list :
    LET v == xwidget_view_list[i]
        m == xw[v.model]
    IN (m.width >= 0 /\ m.height >= 0) =>
         /\ 0 <= v.clip_left /\ v.clip_left <= v.clip_right
         /\ v.clip_right <= m.width
         /\ 0 <= v.clip_top /\ v.clip_top <= v.clip_bottom
         /\ v.clip_bottom <= m.height

\* C8: the width and height of every xwidget are non-negative in every reachable
\* state.
C8_SizeNonNegative ==
  \A h \in Handles : xw[h].width >= 0 /\ xw[h].height >= 0

\* C9: killing a buffer leaves its list of xwidgets empty, and from then on every
\* public operation given the handle of an xwidget that buffer owned signals
\* wrong-type-argument.
C9_KilledHandleRejected ==
  [][/\ \A b \in Buffers :
          kill_buffer_xwidgets(b) => Fget_buffer_xwidgets(b)' = <<>>
     /\ \A h \in Handles :
          (Killed(h) /\ (\/ Fxwidget_info(h)
                         \/ view_lookup_call(h, "w1")
                         \/ \E s \in {<<3, 4>>, <<-1, 2>>} :
                              Fxwidget_resize(h, s[1], s[2])))
            => last'.res = "wrong-type-argument"]_vars

\* C10: the list of a buffer's xwidgets holds xwidgets of that buffer only, each
\* once, and an xwidget is on it from the step that made it until
\* kill_buffer_xwidgets runs on its buffer.
C10_ListInBuffer ==
  [][\A b \in Buffers :
       LET l == Fget_buffer_xwidgets(b)
           l1 == Fget_buffer_xwidgets(b)'
       IN /\ Cardinality(Range(l1)) = Len(l1)
          /\ \A h \in 1..Len(xw') :
               /\ h \in Range(l1) => xw'[h].buffer = b
               /\ xw'[h].buffer = b =>
                    (h \in Range(l1) <=>
                       \/ h \notin Handles
                       \/ h \in Range(l) /\ ~kill_buffer_xwidgets(b))]_vars

\* One buffer's xwidget has been killed while the other buffer lists its own.
C10_Witness ==
  /\ \E h \in Handles : Killed(h) /\ xw[h].buffer = "b1"
  /\ Len(Fget_buffer_xwidgets("b1")) = 0
  /\ Len(Fget_buffer_xwidgets("b2")) = 1

\* C11: kill_buffer_xwidgets (b) takes every xwidget of buffer b off Vxwidget_list
\* and leaves every slot of their callback vectors nil; the xwidgets of other
\* buffers stay on the list, in their order, with their callback vectors as they
\* were.
C11_KillBufferFrame ==
  [][\A b \in Buffers :
       kill_buffer_xwidgets(b) =>
         /\ \A h \in Range(xwidget_list) :
              IF xw[h].buffer = b
                THEN /\ h \notin Range(xwidget_list')
                     /\ \A i \in DOMAIN script_callbacks'[h] :
                          script_callbacks'[h][i] = Qnil
                ELSE /\ h \in Range(xwidget_list')
                     /\ script_callbacks'[h] = script_callbacks[h]
                     /\ xw'[h] = xw[h]
         /\ xwidget_list' = SelectSeq(xwidget_list, LAMBDA h : xw[h].buffer # b)]_vars

\* A kill of b1 has emptied the callback vector of b1's xwidget, which had a request
\* pending, while b2's xwidget is listed with its pending request in its slot.
C11_Witness ==
  \E h, g \in Handles :
    /\ xw[h].buffer = "b1" /\ Killed(h)
    /\ \E r \in inflight : reqs[r].m = h
    /\ script_callbacks[h] # <<>>
    /\ \A i \in DOMAIN script_callbacks[h] : script_callbacks[h][i] = Qnil
    /\ xw[g].buffer = "b2" /\ ~Killed(g)
    /\ \E r \in inflight :
         /\ reqs[r].m = g
         /\ script_callbacks[g][reqs[r].idx + 1].req = r

\* C15: a completion for slot i of a listed xwidget leaves slot i nil in every
\* case; it stores a javascript-callback event exactly when the slot held an entry
\* with a continuation and WebKit produced a result, and none when WebKit reports an
\* error.
C15_CompletionClearsSlot ==
  [][\A r \in inflight, ok \in BOOLEAN :
       (webkit_javascript_finished_cb(r, ok) /\ ~Killed(reqs[r].m)) =>
         LET m == reqs[r].m
             i == reqs[r].idx + 1
             slot == script_callbacks[m][i]
         IN /\ script_callbacks'[m][i] = Qnil
            /\ \A j \in DOMAIN script_callbacks[m] :
                 j # i => script_callbacks'[m][j] = script_callbacks[m][j]
            /\ IF slot # Qnil /\ slot.fun /\ ok
                 THEN /\ Len(events') = Len(events) + 1
                      /\ events'[Len(events')].kind = "javascript-callback"
                      /\ events'[Len(events')].proc = slot.req
                      /\ events'[Len(events')].m = m
                 ELSE events' = events]_vars

\* One request with a continuation has completed with a result and its event is
\* stored; another with a continuation has completed with an error: its entry was
\* cleared and no event stored.
C15_Witness ==
  \E r1, r2 \in DOMAIN reqs :
    /\ reqs[r1].done /\ reqs[r1].fun /\ reqs[r1].enq = 1
    /\ \E e \in DOMAIN events : events[e].proc = r1 /\ events[e].value = r1
    /\ reqs[r2].done /\ reqs[r2].fun /\ reqs[r2].cleared = 1 /\ reqs[r2].enq = 0
    /\ ~Killed(reqs[r1].m) /\ ~Killed(reqs[r2].m)

\* C16: a completion that arrives after kill_buffer_xwidgets for a request that was
\* pending at the kill stores no event, runs no continuation, frees no script and
\* leaves Vxwidget_list, the xwidgets and Vxwidget_view_list as they are.
C16_CompletionAfterKillDropped ==
  [][\A r \in inflight, ok \in BOOLEAN :
       (/\ webkit_javascript_finished_cb(r, ok)
        /\ Killed(reqs[r].m) /\ reqs[r].registered) =>
         /\ events' = events
         /\ \A c \in DOMAIN reqs :
              reqs'[c].enq = reqs[c].enq /\ reqs'[c].cleared = reqs[c].cleared
         /\ xwidget_list' = xwidget_list /\ xw' = xw
         /\ xwidget_view_list' = xwidget_view_list]_vars

\* C12: make-xwidget with a type other than webkit signals an error and leaves
\* Vxwidget_list as it was.
C12_UnsupportedTypeRejected ==
  [][\A t \in Types \ {Qwebkit}, s \in {<<4, 4>>, <<-1, 4>>}, b \in Buffers :
       Fmake_xwidget(t, s[1], s[2], b) =>
         (last'.res # "ok" /\ xwidget_list' = xwidget_list)]_vars

\* The results with which an operation returns to its caller; every other result is
\* an error signalled (or the end of the process).
Returned == {"ok", "not-webkit"}

\* C13: each web-view operation (uri, title, goto-uri, goto-history, zoom,
\* execute-script) on an xwidget that holds no web view signals an error, makes no
\* WebKit call and stores nothing in the callback vector.
C13_NotAWebViewFails ==
  [][\A h \in Handles :
       (/\ xw[h].widget_osr = "null"
        /\ \/ Fxwidget_webkit_uri(h)
           \/ Fxwidget_webkit_title(h)
           \/ \E stringp \in BOOLEAN : Fxwidget_webkit_goto_uri(h, stringp)
           \/ \E rel_pos \in Offsets : Fxwidget_webkit_goto_history(h, rel_pos)
           \/ \E floatp \in BOOLEAN : Fxwidget_webkit_zoom(h, floatp)
           \/ \E fun \in BOOLEAN : Fxwidget_webkit_execute_script(h, fun)) =>
         /\ last'.res \notin Returned
         /\ last'.cmd = "none"
         /\ script_callbacks' = script_callbacks]_vars

\* C14: on a web view, goto-history with an offset outside -1..1 signals
\* args-out-of-range and makes no WebKit call; -1 makes the one call go_back, 0 the
\* one call reload, 1 the one call go_forward.
C14_GotoHistory ==
  [][\A h \in Handles, rel_pos \in Offsets :
       (xw[h].widget_osr = "live" /\ Fxwidget_webkit_goto_history(h, rel_pos)) =>
         IF rel_pos < -1 \/ rel_pos > 1
           THEN last'.res = "args-out-of-range" /\ last'.cmd = "none"
           ELSE /\ last'.res = "ok"
                /\ last'.cmd = CASE rel_pos = -1 -> "go_back"
                                 [] rel_pos = 0 -> "reload"
                                 [] rel_pos = 1 -> "go_forward"]_vars

\* C18: xwidget-resize of a listed xwidget M with sizes in range stores the size
\* in M, sends the size request to exactly the views whose model is M, and leaves
\* the other xwidgets and every view's x, y, clip rectangle and hidden flag as
\* they were.
C18_ResizeFrame ==
  [][\A m \in Range(xwidget_list) :
       Fxwidget_resize(m, 2, 2) =>
         /\ xw'[m].width = 2 /\ xw'[m].height = 2
         /\ last'.resized
         /\ last'.sized = {<<v.model, v.w, v.id>> : v \in
                             {u \in Range(xwidget_view_list) : u.model = m}}
         /\ \A h \in Handles \ {m} : xw'[h] = xw[h]
         /\ xwidget_view_list' = xwidget_view_list
         /\ xwidget_list' = xwidget_list]_vars

\* A resize has just sent its size request to a view of its xwidget while a view
\* of another xwidget, of another size, is on the list.
C18_Witness ==
  /\ last.op = "none" /\ last.resized /\ last.sized # {}
  /\ \E u, v \in Range(xwidget_view_list) :
       /\ u.model # v.model
       /\ <<u.model, u.w, u.id>> \in last.sized
       /\ <<v.model, v.w, v.id>> \notin last.sized
       /\ xw[u.model].width = 2 /\ xw[u.model].height = 2
       /\ xw[v.model].width # 2

\* C19: after a draw of a webkit xwidget the xwidget's width and height are the
\* width and height of the window's text area, and the clip the draw stored is
\* the one computed from that size.
C19_DrawResizesToTextArea ==
  (last.op = "draw" /\ xw[last.m].type = Qwebkit) =>
    LET m == last.m
        b == box[last.w]
        x == last.arg[1]
        y == last.y
        cl == max(0, b[1] - x)
        ct == max(0, b[2] - y)
    IN /\ xw[m].width = b[3] /\ xw[m].height = b[4]
       /\ last.clip = <<cl, ct,
                        max(cl, min(xw[m].width, b[1] + b[3] - x)),
                        max(ct, min(xw[m].height, b[2] + b[4] - y))>>
       /\ \E v \in Range(xwidget_view_list) :
            /\ v.model = m /\ v.w = last.w
            /\ <<v.clip_left, v.clip_top, v.clip_right, v.clip_bottom>> = last.clip

\* A webkit xwidget of 3x2 drawn at the origin of the text area (2, 1, 2, 2) has
\* been resized to 2x2 and clipped to (0, 0, 2, 2).
C19_Witness ==
  /\ last.op = "draw" /\ last.resized /\ xw[last.m].type = Qwebkit
  /\ box[last.w] = <<2, 1, 2, 2>>
  /\ last.arg[1] = 2 /\ last.y = 1
  /\ xw[last.m].width = 2 /\ xw[last.m].height = 2
  /\ last.clip = <<0, 0, 2, 2>>

\* C20: every download-started notification from the web view of a listed xwidget
\* adds exactly one event to the input queue, and that event is the list of five
\* elements (download-started xwidget url mime-type filename) for that xwidget.
C20_OneDownloadEvent ==
  [][\A m \in Range(xwidget_list) :
       download_started(m) =>
         /\ Len(events') = Len(events) + 1
         /\ events'[Len(events')].kind = "download-started"
         /\ events'[Len(events')].m = m
         /\ events'[Len(events')].n = 5]_vars

\* C17: on the build that allows one view for each xwidget, a draw of M in a
\* window where M has no view, while M's view in another window is not hidden, is
\* refused and leaves the views and the xwidgets as they were; when M's view is
\* hidden the draw deletes it and makes the new one; M never has two views.
C17_OneViewPerModel ==
  /\ [][\A m \in Range(xwidget_list), w \in Windows :
          (/\ last'.op = "draw" /\ last'.m = m /\ last'.w = w
           /\ ns_draw_xwidget_glyph_string(m, w, 1, 2, 2)) =>
            LET others == {v \in Range(xwidget_view_list) : v.model = m /\ v.w # w}
            IN /\ (\E v \in others : ~v.hidden) =>
                    /\ last'.res = "cannot-share"
                    /\ xwidget_view_list' = xwidget_view_list
                    /\ xw' = xw
               /\ (others # {} /\ \A v \in others : v.hidden) =>
                    /\ last'.res = "ok" /\ last'.created
                    /\ \A v \in others : v \notin Range(xwidget_view_list')
                    /\ \E v \in Range(xwidget_view_list') : v.model = m /\ v.w = w]_vars
  /\ [][\A i, j \in DOMAIN xwidget_view_list' :
          xwidget_view_list'[i].model = xwidget_view_list'[j].model => i = j]_vars

\* The last draw was refused: its xwidget has no view in the draw's window and a
\* view that is not hidden in the other window.
C17_Witness ==
  /\ last.op = "draw" /\ last.res = "cannot-share"
  /\ \E v \in Range(xwidget_view_list) :
       v.model = last.m /\ v.w # last.w /\ ~v.hidden
  /\ \A v \in Range(xwidget_view_list) : ~(v.model = last.m /\ v.w = last.w)

\* C21: every xwidget on Vxwidget_list holds its offscreen widget, from make-xwidget
\* until kill_buffer_xwidgets takes it off the list.
C21_OneSurfacePerModel ==
  \A h \in Range(xwidget_list) : xw[h].widget_osr = "live"

\* C22: webkit_js_to_lisp gives, for a value nested at most two deep: the string
\* for a string, t or nil for a boolean, the number without its fraction for a
\* number, the vector of the converted elements in index order for an array, the
\* vector of (name . converted value) in enumeration order for an object, and nil
\* for anything else.
C22_Conversion ==
  last.op = "js-to-lisp" =>
    LET atom(v) ==
          IF v.k = "string" THEN LispValue("string", v.s, 0, <<>>)
          ELSE IF v.k = "boolean"
            THEN LispValue(IF v.b THEN "t" ELSE "nil", "", 0, <<>>)
          ELSE IF v.k = "number" THEN LispValue("fixnum", "", CDiv(v.n, 2), <<>>)
          ELSE LispValue("nil", "", 0, <<>>)
        nested(v, conv(_)) ==
          IF v.k = "array"
            THEN LispValue("vector", "", 0,
                           [i \in 1..Len(v.items) |-> conv(v.items[i])])
          ELSE IF v.k = "object"
            THEN LispValue("vector", "", 0,
                           [i \in 1..Len(v.items) |->
                              LispValue("cons", v.items[i].name, 0,
                                        <<conv(v.items[i])>>)])
          ELSE atom(v)
        inner(v) == nested(v, atom)
        outer(v) == nested(v, inner)
    IN last.lisp = outer(last.js)

\* C23 as stated: a callback (load-changed, download-started, decide-policy,
\* script finished) only adds events to the queue; the xwidgets, their callback
\* vectors, both lists and the views are after it as they were before.
C23_CallbacksOnlyEnqueue ==
  [][(\/ \E r \in inflight \ inflight', ok \in BOOLEAN :
           webkit_javascript_finished_cb(r, ok)
      \/ /\ last'.op = "load-changed"
         /\ \E e \in LoadEvents : webkit_view_load_changed_cb(last'.m, e)
      \/ /\ last'.op = "decide-policy"
         /\ \E t \in PolicyDecisionTypes, supported \in BOOLEAN :
              webkit_decide_policy_cb(last'.m, t, supported)
      \/ /\ last'.op = "download-started"
         /\ download_started(last'.m)) =>
       /\ xw' = xw
       /\ xwidget_list' = xwidget_list
       /\ xwidget_view_list' = xwidget_view_list
       /\ script_callbacks' = script_callbacks
       /\ SubSeq(events', 1, Len(events)) = events]_vars

\* C23 amended: the callbacks leave the xwidgets, both lists and the views as they
\* were and only add events to the queue, but for the slot of script_callbacks
\* that the script-finished callback of a request clears: that one slot becomes
\* nil, every other slot of every xwidget stays.
C23_CallbacksKeepAllButTheSlot ==
  [][/\ \A r \in inflight \ inflight', ok \in BOOLEAN :
          webkit_javascript_finished_cb(r, ok) =>
            /\ xw' = xw
            /\ xwidget_list' = xwidget_list
            /\ xwidget_view_list' = xwidget_view_list
            /\ SubSeq(events', 1, Len(events)) = events
            /\ \A h \in DOMAIN script_callbacks :
                 \A i \in DOMAIN script_callbacks[h] :
                   script_callbacks'[h][i] =
                     IF h = reqs[r].m /\ i = reqs[r].idx + 1 /\ alive'
                       THEN Qnil ELSE script_callbacks[h][i]
     /\ (\/ /\ last'.op = "load-changed"
            /\ \E e \in LoadEvents : webkit_view_load_changed_cb(last'.m, e)
         \/ /\ last'.op = "decide-policy"
            /\ \E t \in PolicyDecisionTypes, supported \in BOOLEAN :
                 webkit_decide_policy_cb(last'.m, t, supported)
         \/ /\ last'.op = "download-started"
            /\ download_started(last'.m)) =>
          /\ xw' = xw
          /\ xwidget_list' = xwidget_list
          /\ xwidget_view_list' = xwidget_view_list
          /\ script_callbacks' = script_callbacks
          /\ SubSeq(events', 1, Len(events)) = events]_vars

\* An xwidget with a view has had a script request completed, its slot cleared and
\* the continuation's event stored, after an event of another callback.
C23_Witness ==
  /\ \E v \in Range(xwidget_view_list) : v.model \in Range(xwidget_list)
  /\ \E r \in DOMAIN reqs :
       /\ reqs[r].done /\ reqs[r].cleared = 1 /\ reqs[r].enq = 1
       /\ script_callbacks[reqs[r].m][reqs[r].idx + 1] = Qnil
  /\ Len(events) >= 2
  /\ events[1].kind \in {"load-changed", "decide-policy", "download-started"}
  /\ events[Len(events)].kind = "javascript-callback"

\* C24: every view on Vxwidget_view_list is the view of an xwidget that is on
\* Vxwidget_list; kill_buffer_xwidgets leaves no view of the xwidgets it kills.
C24_ViewsOfListedModels ==
  \A v \in Range(xwidget_view_list) : v.model \in Range(xwidget_list)

\* C25 as stated: a draw on an existing view moves the view's window, to
\* (x + clip_left, y + clip_top), exactly when that corner differs from the one of
\* the stored x, y and clip, and it stores x and y in the view exactly then.
C25_MoveAndStoreWhenMoved ==
  [][\A sx \in {0, 2, 5}, sy \in {1, 3} :
       (/\ last'.op = "draw" /\ last'.arg = <<sx, sy, 2>> /\ ~last'.created
        /\ x_draw_xwidget_glyph_string(1, "w1", sx, sy, 2)) =>
         LET pre == xwidget_view_list[1]
             post == xwidget_view_list'[1]
             x == sx
             y == last'.y
             corner == <<x + last'.clip[1], y + last'.clip[2]>>
             moved == <<pre.x + pre.clip_left, pre.y + pre.clip_top>> # corner
         IN /\ last'.moved <=> moved
            /\ post.pos = IF moved THEN corner ELSE pre.pos
            /\ <<post.x, post.y>> = IF moved THEN <<x, y>> ELSE <<pre.x, pre.y>>]_vars

\* C25 amended: the move is as stated; x and y are stored in the view by every
\* draw, moved or not.
C25_MoveWhenMovedStoreAlways ==
  [][\A sx \in {0, 2, 5}, sy \in {1, 3} :
       (/\ last'.op = "draw" /\ last'.arg = <<sx, sy, 2>> /\ ~last'.created
        /\ x_draw_xwidget_glyph_string(1, "w1", sx, sy, 2)) =>
         LET pre == xwidget_view_list[1]
             post == xwidget_view_list'[1]
             x == sx
             y == last'.y
             corner == <<x + last'.clip[1], y + last'.clip[2]>>
             moved == <<pre.x + pre.clip_left, pre.y + pre.clip_top>> # corner
         IN /\ last'.moved <=> moved
            /\ post.pos = IF moved THEN corner ELSE pre.pos
            /\ <<post.x, post.y>> = <<x, y>>]_vars

\* A draw on an existing view has changed the clip without moving the window: the
\* glyph went to another x or y left of or above the text area, whose corner is the
\* window's.
C25_Witness ==
  /\ last.op = "draw" /\ ~last.created /\ ~last.moved /\ last.reclip
  /\ \E v \in Range(xwidget_view_list) :
       /\ v.x = last.arg[1] /\ v.y = last.y
       /\ (v.clip_left > 0 \/ v.clip_top > 0)

\* C26: after a draw the view's stored clip is left = max (0, text_area_x - x),
\* top = max (0, text_area_y - y), right = max (left, min (width, text_area_x +
\* text_area_width - x)), bottom = max (top, min (height, text_area_y +
\* text_area_height - y)); on an existing view the draw resizes the view's window,
\* to (right - left, bottom - top) with the widget at (-left, -top), exactly when
\* one of the four differs from the stored one.
C26_ClipStoredReclipWhenChanged ==
  [][\A sx \in {0, 2, 5}, sy \in {1, 3} :
       (/\ last'.op = "draw" /\ last'.arg = <<sx, sy, 2>>
        /\ x_draw_xwidget_glyph_string(1, "w1", sx, sy, 2)) =>
         LET post == xwidget_view_list'[1]
             b == box["w1"]
             x == sx
             y == last'.y
             left == max(0, b[1] - x)
             top == max(0, b[2] - y)
             right == max(left, min(xw'[1].width, b[1] + b[3] - x))
             bottom == max(top, min(xw'[1].height, b[2] + b[4] - y))
             clip == <<left, top, right, bottom>>
         IN /\ <<post.clip_left, post.clip_top, post.clip_right,
                 post.clip_bottom>> = clip
            /\ last'.clip = clip
            /\ ~last'.created =>
                 LET pre == xwidget_view_list[1]
                 IN last'.reclip <=>
                      <<pre.clip_left, pre.clip_top, pre.clip_right,
                        pre.clip_bottom>> # clip]_vars

\* A draw on an existing view has changed its clip, which is cut on the left and
\* not empty.
C26_Witness ==
  /\ last.op = "draw" /\ ~last.created /\ last.reclip
  /\ \E v \in Range(xwidget_view_list) :
       /\ <<v.clip_left, v.clip_top, v.clip_right, v.clip_bottom>> = last.clip
       /\ 0 < v.clip_left /\ v.clip_left < v.clip_right

\* C27: xwidget_end_redisplay puts no view on Vxwidget_view_list and takes none off
\* it: a view of the window whose glyph was not seen is only marked hidden and moved
\* to (10000, 10000); a later draw for the view's xwidget and window uses that view
\* and makes no new one.
C27_HiddenViewKeptAndReused ==
  [][/\ \A w \in Windows :
          xwidget_end_redisplay(w) =>
            /\ Len(xwidget_view_list') = Len(xwidget_view_list)
            /\ \A i \in DOMAIN xwidget_view_list :
                 LET pre == xwidget_view_list[i]
                     post == xwidget_view_list'[i]
                 IN /\ SameView(pre, post)
                    /\ (alive' /\ pre.w = w /\ pre.model \notin matrix[w]) =>
                         post = [pre EXCEPT !.hidden = TRUE,
                                            !.redisplayed = FALSE,
                                            !.pos = <<HiddenPos, HiddenPos>>]
     /\ \A m \in Range(xwidget_list), w \in Windows :
          (/\ last'.op = "draw" /\ last'.m = m /\ last'.w = w
           /\ x_draw_xwidget_glyph_string(m, w, 1, 2, 2)
           /\ \E v \in Range(xwidget_view_list) : v.model = m /\ v.w = w) =>
            /\ ~last'.created
            /\ Len(xwidget_view_list') = Len(xwidget_view_list)
            /\ \A i \in DOMAIN xwidget_view_list :
                 SameView(xwidget_view_list[i], xwidget_view_list'[i])]_vars

\* The last draw used the view a redisplay had hidden: the view is still marked
\* hidden, and the only one of its xwidget and window.
C27_Witness ==
  /\ last.op = "draw" /\ ~last.created
  /\ \E v \in Range(xwidget_view_list) :
       /\ v.model = last.m /\ v.w = last.w /\ v.hidden
       /\ \A u \in Range(xwidget_view_list) :
            (u.model = v.model /\ u.w = v.w) => u = v
  /\ \E v \in Range(xwidget_view_list) :
       v.w # last.w /\ v.hidden /\ v.pos = <<HiddenPos, HiddenPos>>

\* C28: whenever xwidget_end_redisplay scans a window, xwidget_view_lookup finds a
\* view for every xwidget glyph of the window's matrix.
C28_GlyphsHaveViews ==
  [][\A w \in Windows :
       xwidget_end_redisplay(w) =>
         \A m \in matrix[w] : xwidget_view_lookup(m, w) # 0]_vars

\* C29: delete-xwidget-view takes exactly the given view off Vxwidget_view_list, so
\* that a lookup for its xwidget and window then finds nothing;
\* xwidget_view_delete_all_in_window leaves no view of the window on the list, and
\* every view of another window on it; neither changes an xwidget.
C29_DeleteViewFrame ==
  [][/\ \A i \in DOMAIN xwidget_view_list :
          Fdelete_xwidget_view(i) =>
            /\ xwidget_view_list' =
                 [k \in 1..(Len(xwidget_view_list) - 1) |->
                    xwidget_view_list[IF k < i THEN k ELSE k + 1]]
            /\ \A v \in Range(xwidget_view_list') :
                 ~(/\ v.model = xwidget_view_list[i].model
                   /\ v.w = xwidget_view_list[i].w)
            /\ xw' = xw /\ xwidget_list' = xwidget_list
     /\ \A w \in Windows :
          xwidget_view_delete_all_in_window(w) =>
            /\ xwidget_view_list' =
                 SelectSeq(xwidget_view_list, LAMBDA v : v.w # w)
            /\ xw' = xw /\ xwidget_list' = xwidget_list]_vars

\* C30: the position last given to GTK for a view's window is (10000, 10000) while
\* the view is marked hidden and (x + clip_left, y + clip_top) while it is not.
C30_PositionAgreesWithHidden ==
  \A v \in Range(xwidget_view_list) :
    v.pos = IF v.hidden THEN <<HiddenPos, HiddenPos>>
            ELSE <<v.x + v.clip_left, v.y + v.clip_top>>

(***************************************************************************)
(* SpecSettle: one web view shown in both windows, redisplayed again and   *)
(* again.  The text areas are chosen at the start and never change.  A     *)
(* redisplay pass draws the glyph of each window that shows it and closes  *)
(* with xwidget_end_redisplay; passes over both windows keep coming, which *)
(* is the weak fairness of the two draws.                                  *)
(***************************************************************************)
SettleBoxes == {<<1, 1, bw, bh>> : bw \in {3, 4}, bh \in {3, 4}}

InitSettle ==
  /\ xw = <<>>
  /\ xwidget_list = <<>>
  /\ xwidget_view_list = <<>>
  /\ script_callbacks = <<>>
  /\ inflight = {}
  /\ reqs = <<>>
  /\ events = <<>>
  /\ box \in [Windows -> SettleBoxes]
  /\ matrix = [w \in Windows |-> {}]
  /\ last = NoLast
  /\ alive = TRUE

redisplay_draws(w) ==
  \E m \in Handles : x_draw_xwidget_glyph_string(m, w, 1, 2, 2)

NextSettle ==
  \/ xw = <<>> /\ Fmake_xwidget(Qwebkit, 4, 4, "b1")
  \/ redisplay_draws("w1")
  \/ redisplay_draws("w2")
  \/ \E w \in Windows : xwidget_end_redisplay(w)

FairSettle ==
  /\ WF_vars(redisplay_draws("w1"))
  /\ WF_vars(redisplay_draws("w2"))

SpecSettle == InitSettle /\ [][NextSettle]_vars /\ FairSettle

\* The text areas of the two windows have different sizes.
areas_differ == <<box["w1"][3], box["w1"][4]>> # <<box["w2"][3], box["w2"][4]>>

\* The last operation was no draw that issued a resize of the xwidget, a move of
\* the view or a reclip of the view.
draw_quiet ==
  last.op = "draw" => ~(last.resized \/ last.moved \/ last.reclip)

\* C31: when one web view is displayed in two windows whose text areas have
\* different sizes and stay as they are, repeated redisplay passes over both
\* windows reach a state from which on no draw issues a resize, a move or a
\* reclip.
C31_DrawsSettle ==
  (areas_differ /\ <>(\A w \in Windows : 1 \in matrix[w])) => <>[]draw_quiet

\* The same for text areas of one size.
DrawsSettleInEqualAreas ==
  (~areas_differ /\ <>(\A w \in Windows : 1 \in matrix[w])) => <>[]draw_quiet

=============================================================================
